---------------------------- MODULE Spec2Model ----------------------------
(***************************************************************************)
(* State-machine model of src/src/App.tsx (christmas-memory-tree).         *)
(*                                                                         *)
(* The App component owns `mode` and `imageUrls`; NeedleParticles owns the *)
(* per-particle data, one shared scratch Object3D (`dummy`) and the        *)
(* instanced mesh; every PhotoParticle owns its memoised data and its own  *)
(* mesh.  The host render loop calls the useFrame callbacks once per frame *)
(* (NeedleParticles first, then every PhotoParticle in collection order),  *)
(* and React runs event handlers, the re-render they cause and the effect  *)
(* clean-ups between two frames.                                           *)
(*                                                                         *)
(* Numbers are fixed-point integers:                                       *)
(*   lengths and coordinates   tenths of a world unit                      *)
(*   factors, Math.random()    thousandths (0..999 for Math.random())      *)
(*   angles                    tenths of a degree                          *)
(*   delta                     milliseconds                                *)
(* The rotation written by the frame callbacks (a function of the clock,   *)
(* speed and rotationOffset only) is not part of the modelled transform.   *)
(***************************************************************************)
EXTENDS Integers, Sequences, FiniteSets

(* ------------------------------ bounds -------------------------------- *)

\* Number of needle particles (stands for count={6000}).
NeedleCount == 2

\* Largest size of the picture collection.
MaxPhotos == 2

\* Largest number of files in one upload event.
MaxUpload == MaxPhotos

\* Number of frames the render loop runs.
MaxFrames == 2

(* ------------------------ program constants --------------------------- *)

NeedleMaxRadius == 45
NeedleHeightScale == 100
NeedleScatterRadius == 180
NeedleLambda == 15
PhotoMaxRadius == 55
PhotoHeightScale == 110
PhotoScatterRadius == 200
PhotoLambda == 12
PhotoLift == 5
GoldenAngle == 1375

\* The frame times the host loop hands to the callbacks (delta, in ms).
Deltas == {500, 1000}

\* Division in JS floating point yields a non-finite value (NaN, Infinity)
\* where the divisor is 0; it does not raise.
NonFinite == "NonFinite"

(* --------------------------- scalar maths ------------------------------ *)

Abs(x) == IF x < 0 THEN -x ELSE x

\* Quotient rounded toward zero.
TruncDiv(a, b) == IF a >= 0 THEN a \div b ELSE -((-a) \div b)

\* Math.cos / Math.sin (thousandths) at the angles the program reaches:
\* multiples of the golden angle and quarter turns.
Cos1000(a) ==
  LET d == a % 3600 IN
  CASE d = 0    -> 1000
    [] d = 1375 -> -737
    [] d = 2750 -> 87
    [] d = 525  -> 609
    [] d = 1900 -> -985
    [] d = 3275 -> 843
    [] d = 1050 -> -259
    [] d = 2425 -> -462
    [] d = 200  -> 940
    [] d = 1575 -> -924
    [] d = 900  -> 0
    [] d = 1800 -> -1000
    [] d = 2700 -> 0

Sin1000(a) ==
  LET d == a % 3600 IN
  CASE d = 0    -> 0
    [] d = 1375 -> 676
    [] d = 2750 -> -996
    [] d = 525  -> 793
    [] d = 1900 -> -174
    [] d = 3275 -> -537
    [] d = 1050 -> 966
    [] d = 2425 -> -887
    [] d = 200  -> 342
    [] d = 1575 -> 383
    [] d = 900  -> 1000
    [] d = 1800 -> 0
    [] d = 2700 -> -1000

\* Integer square root and cube root (largest k with k^2 <= n, k^3 <= n).
ISqrt(n) == CHOOSE k \in 0..1000 : k * k <= n /\ (k + 1) * (k + 1) > n

ICbrt(n) == CHOOSE k \in 0..1000 : k * k * k <= n /\ (k + 1) * (k + 1) * (k + 1) > n

\* Math.exp(-x) in thousandths, x = lambda (tenths per second) * dt (ms).
ExpNeg1000(x) ==
  CASE x = 7500  -> 472
    [] x = 15000 -> 223
    [] x = 6000  -> 549
    [] x = 12000 -> 301

\* THREE.MathUtils.lerp(x, y, t) = (1 - t) * x + t * y, t in thousandths; the
\* fixed-point result is rounded toward x.
Lerp(x, y, t) == x + TruncDiv((y - x) * t, 1000)

\* THREE.MathUtils.damp(x, y, lambda, dt) = lerp(x, y, 1 - exp(-lambda * dt)).
Damp(x, y, lambda, dt) == Lerp(x, y, 1000 - ExpNeg1000(lambda * dt))

LerpVec(a, b, t) == << Lerp(a[1], b[1], t), Lerp(a[2], b[2], t), Lerp(a[3], b[3], t) >>

DampVec(a, b, lambda, dt) ==
  << Damp(a[1], b[1], lambda, dt), Damp(a[2], b[2], lambda, dt), Damp(a[3], b[3], lambda, dt) >>

Origin == << 0, 0, 0 >>

Range(s) == { s[k] : k \in 1..Len(s) }

(* ------------------------ position generators -------------------------- *)

\* getPhyllotaxisPosition; rnd is the value of its one Math.random() call.
getPhyllotaxisPosition(index, total, maxRadius, heightScale, rnd) ==
  IF total = 0 THEN << NonFinite, NonFinite, NonFinite >>
  ELSE
    LET angle == index * GoldenAngle
        normalizedHeight == (index * 1000) \div total
        currentRadius ==
          TruncDiv(maxRadius * (1000 - normalizedHeight) * (800 + (rnd * 400) \div 1000), 1000000)
        x == TruncDiv(Cos1000(angle) * currentRadius, 1000)
        z == TruncDiv(Sin1000(angle) * currentRadius, 1000)
        y == TruncDiv(normalizedHeight * heightScale, 1000) - heightScale \div 2
    IN << x, y, z >>

\* randomVectorInSphere; u, v, w are the values of its three Math.random()
\* calls.  cos(acos(c)) = c and sin(acos(c)) = sqrt(1 - c^2).
randomVectorInSphere(radius, u, v, w) ==
  LET theta == (3600 * u) \div 1000
      cosPhi == 2 * v - 1000
      sinPhi == ISqrt(1000000 - cosPhi * cosPhi)
      r == (ICbrt(w * 1000000) * radius) \div 1000
  IN << TruncDiv(r * sinPhi * Cos1000(theta), 1000000),
        TruncDiv(r * sinPhi * Sin1000(theta), 1000000),
        TruncDiv(r * cosPhi, 1000) >>

\* The results of the consecutive Math.random() calls of one data item:
\* jit (getPhyllotaxisPosition), u, v, w (randomVectorInSphere), spd, rot, scl.
Draws ==
  { [jit |-> 0,   u |-> 0,   v |-> 500, w |-> 125, spd |-> 0,   rot |-> 0,   scl |-> 0],
    [jit |-> 750, u |-> 250, v |-> 250, w |-> 512, spd |-> 500, rot |-> 500, scl |-> 500] }

\* randomVectorInSphere(18) and randomVectorInSphere(20) for each draw.
NeedleScatter == [d \in Draws |-> randomVectorInSphere(NeedleScatterRadius, d.u, d.v, d.w)]

PhotoScatter == [d \in Draws |-> randomVectorInSphere(PhotoScatterRadius, d.u, d.v, d.w)]

\* One element of NeedleParticles' data array.
NeedleDatum(i, count, d) ==
  [ treePos        |-> getPhyllotaxisPosition(i, count, NeedleMaxRadius, NeedleHeightScale, d.jit),
    scatterPos     |-> NeedleScatter[d],
    speed          |-> (d.spd * 200) \div 1000 + 100,
    rotationOffset |-> (d.rot * 3142) \div 1000,
    scale          |-> (d.scl * 600) \div 1000 + 400 ]

\* getPhyllotaxisPosition(index, total, 5.5, 11).add(new THREE.Vector3(0, 0.5, 0))
PhotoTreePos(index, total, rnd) ==
  LET p == getPhyllotaxisPosition(index, total, PhotoMaxRadius, PhotoHeightScale, rnd)
  IN IF total = 0 THEN p ELSE << p[1], p[2] + PhotoLift, p[3] >>

\* PhotoParticle's memoised data; jit keeps the random value that went into
\* treePos.
PhotoDatum(index, total, d) ==
  [ treePos        |-> PhotoTreePos(index, total, d.jit),
    scatterPos     |-> PhotoScatter[d],
    speed          |-> (d.spd * 100) \div 1000 + 50,
    rotationOffset |-> (d.rot * 3142) \div 1000,
    jit            |-> d.jit ]

\* mode === "TREE_SHAPE" ? 1 : 0
TargetT(m) == IF m = "TREE_SHAPE" THEN 1000 ELSE 0

(* ------------------------------ state ---------------------------------- *)

VARIABLES
  mode,           \* App: "SCATTERED" | "TREE_SHAPE"
  imageUrls,      \* App: sequence of object URLs
  nextUrl,        \* serial of the next URL.createObjectURL result
  revoked,        \* URLs passed to URL.revokeObjectURL
  alive,          \* App is mounted
  history,        \* the last two handlers that ran, the latest first:
                  \* [op |-> "toggle" | "upload", from |-> mode before it]
  photos,         \* the PhotoParticle instances, in collection order
  data,           \* NeedleParticles: data array
  meshRef,        \* NeedleParticles: meshRef.current is set
  dummy,          \* NeedleParticles: the shared scratch Object3D
  instanceMatrix, \* NeedleParticles: the transform in each slot of the batch
  flagged,        \* times instanceMatrix.needsUpdate was set in this frame
  written,        \* slots written by setMatrixAt in this frame
  evals,          \* <<index, total>> of every getPhyllotaxisPosition call
  pc,             \* "idle" | "needles" | "photos"
  ni,             \* forEach index of the needle callback
  pj,             \* index of the next PhotoParticle callback of this frame
  delta,          \* delta of the current frame
  frames          \* frames started

appVars == << mode, imageUrls, nextUrl, revoked, alive, history >>
needleVars == << data, meshRef, dummy, instanceMatrix, flagged, written >>
loopVars == << pc, ni, pj, delta, frames >>
vars == << appVars, photos, needleVars, evals, loopVars >>

(* ------------------------------- Init ---------------------------------- *)

\* State after the first render: useState initial values, NeedleParticles'
\* useMemo data computed, no mesh attached yet, no frame run.
Init ==
  /\ mode = "SCATTERED"
  /\ imageUrls = << >>
  /\ nextUrl = 1
  /\ revoked = {}
  /\ alive = TRUE
  /\ history = << >>
  /\ photos = << >>
  /\ \E ds \in [1..NeedleCount -> Draws] :
       data = [k \in 1..NeedleCount |-> NeedleDatum(k - 1, NeedleCount, ds[k])]
  /\ meshRef = FALSE
  /\ dummy = [position |-> Origin, scale |-> 1000]
  /\ instanceMatrix = [k \in 1..NeedleCount |-> [position |-> Origin, scale |-> 0]]
  /\ flagged = 0
  /\ written = {}
  /\ evals = { << k - 1, NeedleCount >> : k \in 1..NeedleCount }
  /\ pc = "idle"
  /\ ni = 0
  /\ pj = 0
  /\ delta = 0
  /\ frames = 0


(* --------------------------- App handlers ------------------------------ *)

\* history after handler op ran in mode m.
Record(h, op, m) == << [op |-> op, from |-> m] >> \o (IF h = << >> THEN << >> ELSE << h[1] >>)

\* Mutant: the toggle only ever gathers.
ToggledModeOneWay(m) == "TREE_SHAPE"

\* setMode((m) => (m === "SCATTERED" ? "TREE_SHAPE" : "SCATTERED"))
ToggledMode(m) == IF m = "SCATTERED" THEN "TREE_SHAPE" ELSE "SCATTERED"

\* Mutant: the upload leaves the mode as it was.
ModeAfterUploadKept(m) == m

\* setMode("SCATTERED") at the end of handleImageUpload.
ModeAfterUpload(m) == "SCATTERED"

\* Array.from(files).map((file) => URL.createObjectURL(file)): one fresh URL
\* per file, in file order.
NewUrls(n) == [k \in 1..n |-> nextUrl + k - 1]

\* Mutant: the new URLs are put in front.
PrependUrls(prev, newUrls) == newUrls \o prev

\* setImageUrls((prev) => [...prev, ...newUrls])
AppendUrls(prev, newUrls) == prev \o newUrls

\* The clean-up of the effect of the previous render: it closes over that
\* render's imageUrls and revokes every one of them.
CleanupRevokes(prevUrls) == Range(prevUrls)

\* Mutant: total is the length without the element itself.
PhotoTotalOthers(urls) == Len(urls) - 1

\* total={imageUrls.length} and index={index} of the element at place k
\* (1-based) of imageUrls.map.
PhotoTotal(urls) == Len(urls)

PhotoIndex(k) == k - 1

\* Mutant: the memo is keyed on index alone.
MemoStaleIndexOnly(p, index, total) == p.deps[1] # index

\* useMemo(..., [index, total]): the factory runs again when a dependency
\* differs from the one stored by the previous render.
MemoStale(p, index, total) == p.deps # << index, total >>

\* key={url + index}: the instance at place k survives the re-render when
\* its key is the same.
SameKey(old, k, urls) == k <= Len(old) /\ old[k].url = urls[k]

\* The PhotoParticle instances after rendering imageUrls.map over urls, ds[k]
\* being the random draws of the element at place k.
RenderPhotos(old, urls, ds) ==
  [ k \in 1..Len(urls) |->
      IF SameKey(old, k, urls)
        THEN IF MemoStale(old[k], PhotoIndex(k), PhotoTotal(urls))
               THEN [ old[k] EXCEPT !.deps = << PhotoIndex(k), PhotoTotal(urls) >>,
                                    !.data = PhotoDatum(PhotoIndex(k), PhotoTotal(urls), ds[k]) ]
               ELSE old[k]
        ELSE [ url      |-> urls[k],
               deps     |-> << PhotoIndex(k), PhotoTotal(urls) >>,
               data     |-> PhotoDatum(PhotoIndex(k), PhotoTotal(urls), ds[k]),
               ref      |-> FALSE,
               position |-> Origin ] ]

\* The getPhyllotaxisPosition calls of that render.
RenderEvals(old, urls) ==
  { << PhotoIndex(k), PhotoTotal(urls) >> :
      k \in { j \in 1..Len(urls) :
                ~SameKey(old, j, urls) \/ MemoStale(old[j], PhotoIndex(j), PhotoTotal(urls)) } }

\* The toggle button's onClick.
ToggleMode ==
  /\ alive /\ pc = "idle"
  /\ mode' = ToggledMode(mode)
  /\ history' = Record(history, "toggle", mode)
  /\ UNCHANGED << imageUrls, nextUrl, revoked, alive, photos, needleVars, evals, loopVars >>

\* handleImageUpload with n files selected, the re-render it causes and the
\* effect clean-up that re-render triggers (event.target.files of a file
\* input is a FileList, possibly empty).
handleImageUpload ==
  /\ alive /\ pc = "idle"
  /\ \E n \in 0..MaxUpload :
       /\ Len(imageUrls) + n <= MaxPhotos
       /\ imageUrls' = AppendUrls(imageUrls, NewUrls(n))
       /\ nextUrl' = nextUrl + n
  /\ mode' = ModeAfterUpload(mode)
  /\ history' = Record(history, "upload", mode)
  /\ revoked' = revoked \cup CleanupRevokes(imageUrls)
  /\ \E ds \in [1..Len(imageUrls') -> Draws] :
       photos' = RenderPhotos(photos, imageUrls', ds)
  /\ evals' = evals \cup RenderEvals(photos, imageUrls')
  /\ UNCHANGED << alive, needleVars, loopVars >>

\* App unmounts: the effect clean-up of the last render runs.
Unmount ==
  /\ alive /\ pc = "idle"
  /\ alive' = FALSE
  /\ revoked' = revoked \cup CleanupRevokes(imageUrls)
  /\ UNCHANGED << mode, imageUrls, nextUrl, history, photos, needleVars, evals, loopVars >>

\* React attaches the instanced mesh to meshRef.
AttachMesh ==
  /\ alive /\ pc = "idle" /\ ~meshRef
  /\ meshRef' = TRUE
  /\ UNCHANGED << appVars, photos, data, dummy, instanceMatrix, flagged, written, evals, loopVars >>

\* A PhotoParticle's texture has loaded and React attaches its mesh to ref.
AttachPhoto ==
  /\ alive /\ pc = "idle"
  /\ \E k \in 1..Len(photos) :
       /\ ~photos[k].ref
       /\ photos' = [photos EXCEPT ![k].ref = TRUE]
  /\ UNCHANGED << appVars, needleVars, evals, loopVars >>

(* --------------------------- frame callbacks --------------------------- *)

\* A frame begins and NeedleParticles' callback passes its guard.
NeedleFrameStart ==
  /\ alive /\ pc = "idle" /\ frames < MaxFrames
  /\ meshRef
  /\ \E d \in Deltas : delta' = d
  /\ frames' = frames + 1
  /\ pc' = "needles"
  /\ ni' = 0
  /\ flagged' = 0
  /\ written' = {}
  /\ UNCHANGED << appVars, photos, data, meshRef, dummy, instanceMatrix, evals, pj >>

\* A frame begins and NeedleParticles' callback returns at
\* if (!meshRef.current) return.
NeedleFrameSkip ==
  /\ alive /\ pc = "idle" /\ frames < MaxFrames
  /\ ~meshRef
  /\ \E d \in Deltas : delta' = d
  /\ frames' = frames + 1
  /\ pc' = "photos"
  /\ pj' = 0
  /\ flagged' = 0
  /\ written' = {}
  /\ UNCHANGED << appVars, photos, data, meshRef, dummy, instanceMatrix, evals, ni >>

\* Mutant: the batch is flagged inside the loop, after each slot write.
NeedleWriteSlotFlagging ==
  /\ pc = "needles" /\ ni < NeedleCount
  /\ LET particle == data[ni + 1]
         target == LerpVec(particle.scatterPos, particle.treePos, TargetT(mode))
     IN dummy' = [ position |-> DampVec(dummy.position, target, NeedleLambda, delta),
                   scale    |-> particle.scale ]
  /\ instanceMatrix' = [instanceMatrix EXCEPT ![ni + 1] = dummy']
  /\ written' = written \cup {ni}
  /\ flagged' = flagged + 1
  /\ ni' = ni + 1
  /\ UNCHANGED << appVars, photos, data, meshRef, evals, pc, pj, delta, frames >>

\* One iteration of data.forEach: damp dummy.position toward the particle's
\* target, set dummy.scale, and copy dummy.matrix into slot ni.
NeedleWriteSlot ==
  /\ pc = "needles" /\ ni < NeedleCount
  /\ LET particle == data[ni + 1]
         target == LerpVec(particle.scatterPos, particle.treePos, TargetT(mode))
     IN dummy' = [ position |-> DampVec(dummy.position, target, NeedleLambda, delta),
                   scale    |-> particle.scale ]
  /\ instanceMatrix' = [instanceMatrix EXCEPT ![ni + 1] = dummy']
  /\ written' = written \cup {ni}
  /\ ni' = ni + 1
  /\ UNCHANGED << appVars, photos, data, meshRef, flagged, evals, pc, pj, delta, frames >>

\* meshRef.current.instanceMatrix.needsUpdate = true, after the forEach.
NeedleFlag ==
  /\ pc = "needles" /\ ni = NeedleCount
  /\ flagged' = flagged + 1
  /\ pc' = "photos"
  /\ pj' = 0
  /\ UNCHANGED << appVars, photos, data, meshRef, dummy, instanceMatrix, written, evals, ni, delta, frames >>

\* The useFrame callback of the PhotoParticle at place pj.
PhotoFrame ==
  /\ pc = "photos" /\ pj < Len(photos)
  /\ LET p == photos[pj + 1]
         target == LerpVec(p.data.scatterPos, p.data.treePos, TargetT(mode))
     IN photos' = IF p.ref
                    THEN [photos EXCEPT ![pj + 1].position =
                            DampVec(p.position, target, PhotoLambda, delta)]
                    ELSE photos
  /\ pj' = pj + 1
  /\ UNCHANGED << appVars, needleVars, evals, pc, ni, delta, frames >>

\* Every callback of the frame has run.
FrameEnd ==
  /\ pc = "photos" /\ pj = Len(photos)
  /\ pc' = "idle"
  /\ UNCHANGED << appVars, photos, needleVars, evals, ni, pj, delta, frames >>

Next ==
  \/ ToggleMode
  \/ handleImageUpload
  \/ Unmount
  \/ AttachMesh
  \/ AttachPhoto
  \/ NeedleFrameStart
  \/ NeedleFrameSkip
  \/ NeedleWriteSlot
  \/ NeedleFlag
  \/ PhotoFrame
  \/ FrameEnd

Spec == Init /\ [][Next]_vars

\* The App component alone: the handlers, the renders and the mounts, with
\* the render loop not running.
NextApp ==
  \/ ToggleMode
  \/ handleImageUpload
  \/ Unmount
  \/ AttachMesh
  \/ AttachPhoto

SpecApp == Init /\ [][NextApp]_vars

\* NeedleParticles under the render loop, with mode toggles between frames
\* and no picture in the collection.
NextNeedles ==
  \/ ToggleMode
  \/ AttachMesh
  \/ NeedleFrameStart
  \/ NeedleFrameSkip
  \/ NeedleWriteSlot
  \/ NeedleFlag
  \/ FrameEnd

SpecNeedles == Init /\ [][NextNeedles]_vars


(* ------------------------------ claims --------------------------------- *)

LastOp(k) == IF Len(history) >= k THEN history[k].op ELSE "none"

\* The target and the damping of the item a frame step is about.
NeedleTarget(k) == LerpVec(data[k].scatterPos, data[k].treePos, TargetT(mode))

PhotoTarget(k) == LerpVec(photos[k].data.scatterPos, photos[k].data.treePos, TargetT(mode))

\* x2 lies between x and y, at most the fraction 1 - exp(-lambda * dt) of the
\* way, and is not y unless x is.
StepWithin(x, x2, y, lambda, dt) ==
  /\ (x <= x2 /\ x2 <= y) \/ (y <= x2 /\ x2 <= x)
  /\ Abs(x2 - x) * 1000 <= Abs(y - x) * (1000 - ExpNeg1000(lambda * dt))
  /\ x # y => x2 # y

StepWithinVec(a, a2, b, lambda, dt) ==
  \A c \in 1..3 : StepWithin(a[c], a2[c], b[c], lambda, dt)

\* C1: while the App is mounted, no object URL that is still a member of
\* imageUrls has been revoked.
C1_LiveHandlesNotReleased == alive => Range(imageUrls) \cap revoked = {}

\* C2: every PhotoParticle, old or new, holds a treePos computed with its own
\* index and with total equal to the current length of imageUrls.
C2_TargetsUseCurrentTotal ==
  /\ Len(photos) = Len(imageUrls)
  /\ \A k \in 1..Len(photos) :
       /\ photos[k].deps = << k - 1, Len(imageUrls) >>
       /\ photos[k].data.treePos = PhotoTreePos(k - 1, Len(imageUrls), photos[k].data.jit)

\* C2 witness: a picture that was in the collection before the last upload
\* (its URL went through the clean-up) beside one that upload added, and
\* the older one at an index above 0 when the collection allows it.
C2_Witness ==
  /\ LastOp(1) = "upload"
  /\ Len(photos) = MaxPhotos
  /\ photos[MaxPhotos - 1].url \in revoked
  /\ photos[MaxPhotos].url \notin revoked
  /\ photos[MaxPhotos - 1].deps = << MaxPhotos - 2, MaxPhotos >>

\* C3: when the last handler that ran is handleImageUpload, mode is
\* "SCATTERED".
C3_UploadLeavesScattered == LastOp(1) = "upload" => mode = "SCATTERED"

\* C3 witness: an upload made in TREE_SHAPE, after a toggle, with files.
C3_Witness ==
  /\ LastOp(1) = "upload" /\ LastOp(2) = "toggle"
  /\ history[1].from = "TREE_SHAPE"
  /\ mode = "SCATTERED"
  /\ Len(imageUrls) > 0

\* C4: in every step, with K the length of imageUrls and n the number of
\* object URLs the step creates, imageUrls afterwards has length K + n, its
\* first K entries are the previous ones in order, the n created URLs follow
\* in creation order, and the elements that were there keep their index; so
\* a step that creates none (a toggle) leaves imageUrls as it is.
C4_AppendInOrder ==
  [][ LET K == Len(imageUrls)
          n == nextUrl' - nextUrl
      IN /\ n >= 0
         /\ Len(imageUrls') = K + n
         /\ \A k \in 1..K : imageUrls'[k] = imageUrls[k]
         /\ \A j \in 1..n : imageUrls'[K + j] = nextUrl + j - 1
         /\ Len(photos') = K + n
         /\ \A k \in 1..(K + n) : photos'[k].url = imageUrls'[k] /\ photos'[k].deps[1] = k - 1
         /\ mode' # mode /\ n = 0 => imageUrls' = imageUrls ]_vars

\* C4 witness: two files uploaded onto a non-empty collection.
C4_Witness ==
  /\ LastOp(1) = "upload" /\ LastOp(2) = "upload"
  /\ Len(imageUrls) >= 2
  /\ imageUrls[1] \in revoked
  /\ \A k \in 2..Len(imageUrls) : imageUrls[k] \notin revoked
  /\ nextUrl = Len(imageUrls) + 1

\* C5: every ToggleMode step takes SCATTERED to TREE_SHAPE and TREE_SHAPE to
\* SCATTERED, and when the handler before it was a toggle too, it returns
\* mode to the value it had before that one.
C5_ToggleFlips ==
  [][ ToggleMode =>
        /\ mode = "SCATTERED" => mode' = "TREE_SHAPE"
        /\ mode = "TREE_SHAPE" => mode' = "SCATTERED"
        /\ LastOp(1) = "toggle" => mode' = history[1].from ]_vars

\* C5 witness: two toggles in a row, from either mode.
C5_Witness ==
  /\ LastOp(1) = "toggle" /\ LastOp(2) = "toggle"
  /\ history[2].from = mode
  /\ history[1].from # mode

\* C6: a PhotoParticle that survives a step keeps the jitter, scatterPos,
\* speed and rotationOffset it was created with.
C6_RandomAttributesFrozen ==
  [][ \A k \in 1..Len(photos) :
        (k <= Len(photos') /\ photos'[k].url = photos[k].url) =>
          /\ photos'[k].data.jit = photos[k].data.jit
          /\ photos'[k].data.scatterPos = photos[k].data.scatterPos
          /\ photos'[k].data.speed = photos[k].data.speed
          /\ photos'[k].data.rotationOffset = photos[k].data.rotationOffset ]_vars

\* C7: the position a frame step writes for an item (slot ni of the batch,
\* the mesh of the PhotoParticle at pj) is the damping of that item's own
\* position of the previous frame toward its target.
C7_DampFromOwnPosition ==
  [][ /\ (pc = "needles" /\ ni' = ni + 1) =>
           instanceMatrix'[ni + 1].position =
             DampVec(instanceMatrix[ni + 1].position, NeedleTarget(ni + 1), NeedleLambda, delta)
      /\ (pc = "photos" /\ pj' = pj + 1 /\ photos[pj + 1].ref) =>
           photos'[pj + 1].position =
             DampVec(photos[pj + 1].position, PhotoTarget(pj + 1), PhotoLambda, delta) ]_vars

\* C8: the position a frame step writes for an item lies between the item's
\* previous displayed position and its target, at most the fraction
\* 1 - exp(-rate * delta) of the way, and short of the target.
C8_BoundedStepTowardTarget ==
  [][ /\ (pc = "needles" /\ ni' = ni + 1) =>
           StepWithinVec(instanceMatrix[ni + 1].position, instanceMatrix'[ni + 1].position,
                         NeedleTarget(ni + 1), NeedleLambda, delta)
      /\ (pc = "photos" /\ pj' = pj + 1 /\ photos[pj + 1].ref) =>
           StepWithinVec(photos[pj + 1].position, photos'[pj + 1].position,
                         PhotoTarget(pj + 1), PhotoLambda, delta) ]_vars

\* C9: no flag is set while the forEach runs, which has written exactly the
\* slots below ni; once the needle callback has returned, a frame that found
\* the mesh has written every slot and set the flag once, and a frame that
\* did not has written no slot and set no flag.
C9_FlagOnceAfterAllSlots ==
  /\ flagged <= 1
  /\ pc = "needles" => flagged = 0 /\ written = 0..(ni - 1)
  /\ flagged = 1 => written = 0..(NeedleCount - 1)
  /\ pc = "photos" /\ meshRef => flagged = 1
  /\ pc = "photos" /\ ~meshRef => flagged = 0 /\ written = {}

\* C9 witness: the needle callback of the last frame has just returned with
\* every slot written and the flag set.
C9_Witness ==
  /\ pc = "photos" /\ meshRef
  /\ frames = MaxFrames
  /\ written = 0..(NeedleCount - 1)
  /\ flagged = 1
  /\ \A k \in 1..NeedleCount : instanceMatrix[k].position # Origin

\* C10: every call of getPhyllotaxisPosition had total >= 1 and
\* 0 <= index < total, and an empty collection has no PhotoParticle and has
\* caused no call beyond the needles'.
C10_NoEvaluationWithZeroTotal ==
  /\ \A e \in evals : e[2] >= 1 /\ 0 <= e[1] /\ e[1] < e[2]
  /\ imageUrls = << >> =>
       /\ photos = << >>
       /\ evals = { << k - 1, NeedleCount >> : k \in 1..NeedleCount }

\* C10 witness: a render of a single picture (total 1, the smallest) after an
\* upload of no file onto the empty collection.
C10_Witness ==
  /\ LastOp(1) = "upload" /\ LastOp(2) = "upload"
  /\ Len(imageUrls) = 1
  /\ revoked = {}
  /\ << 0, 1 >> \in evals

=============================================================================
